---- MODULE Spec2Model ----
(***************************************************************************)
(* Model of the troubleshooting workflow of graph.py: the LangGraph nodes  *)
(* init_deps, action_planner, action_router, action_executor,              *)
(* action_analyzer and result_summary, the approval interrupt of the       *)
(* router and the state they share (NetworkTroubleshootingState).          *)
(*                                                                         *)
(* A node is one action: it reads the committed state of the thread and    *)
(* commits the update it returns.  A router run that reaches interrupt()   *)
(* commits nothing; a resume re-runs the router from its first line on the *)
(* committed state, with the responses received so far handed to the       *)
(* successive interrupt() calls.                                           *)
(*                                                                         *)
(* The module also models what outlives a run: the module global           *)
(* NETMIKO_CONNECTION with the connection handles it has pointed to, and   *)
(* the alert queue file shared by receive_alert (alert_queue.py) and       *)
(* dequeue_oldest_alert (streamlit_app.py).                                *)
(*                                                                         *)
(* Specifications: Spec is one run in simulation or test mode; SpecFair    *)
(* adds weak fairness of the graph's scheduling; SpecDup lets the analysis *)
(* agent repeat the executed step; SpecSessions is consecutive runs of one *)
(* process in any mode; SpecTwoSessions is two real-mode sessions of one   *)
(* process interleaved; SpecThread is runs that follow an unfinished run   *)
(* on the same thread; SpecQueue and SpecQueueConcurrent are the alert     *)
(* queue with calls taking turns and with calls overlapping.               *)
(***************************************************************************)
EXTENDS Integers, Sequences, FiniteSets, TLC

(* ---- bounds of the model ---- *)
MaxStepsBound == 2
MaxPlanLen == 3
MaxReplanLen == 2
MaxIds == 3
MaxPrompts == 1
MaxSessions == 2
MaxAlerts == 3
MaxDequeues == 3
MaxCallers == 2

VARIABLES
    pc,                      \* node the graph runs next
    settings,                \* state["settings"]: max_steps, adaptive_mode
    device_facts,            \* state["device_facts"]
    action_plan_remaining,   \* state["action_plan_remaining"]
    action_plan_history,     \* state["action_plan_history"]
    current_step,            \* state["current_step"]
    current_step_index,      \* state["current_step_index"]
    action_executor_history, \* state["action_executor_history"]: one entry per executed step
    resume_values,           \* responses handed to the router's interrupt() calls, in order
    next_id,                 \* identity of the next step object created by planner or analyzer
    introduced,              \* history variable: steps created by the planner and by replans
    discarded,               \* history variable: remaining steps thrown away by replans
    suspended,               \* history variable: the router's locals at the pending interrupt
    gate,                    \* history variable: the last response at the approval gate and its step
    planned,                 \* history variable: the planner's plan, until a replan replaces its rest
    execution_result,        \* state["execution_result"]: outcome of the last executed step
    last_update,             \* history variable: updated_action_plan_remaining of the last analysis
    NETMIKO_CONNECTION,      \* the module global of graph.py: 0 for None, else a handle of handles
    handles,                 \* every connection handle created so far: open flag, disconnect() calls
    session,                 \* number of workflow runs started in this process
    peer,                    \* a second session of the process: its position and the handle it opened
    queue_file,              \* alerts/alert_queue.txt: whether it exists, and its lines
    ingested,                \* history variable: the alerts POST /alert has accepted, in order
    returned,                \* history variable: the alerts dequeue calls have returned, in order
    last_result,             \* return value of the dequeue call that completed last
    calls,                   \* number of dequeue calls started
    dq,                      \* per caller of dequeue_oldest_alert: position, lines read, lock made
    held                     \* the lock objects that are currently held

\* The variables of one workflow run (a thread of the graph).
run_vars == <<pc, settings, device_facts, action_plan_remaining, action_plan_history,
              current_step, current_step_index, action_executor_history, resume_values,
              next_id, introduced, discarded, suspended, gate, planned,
              execution_result, last_update>>

\* The variables of the process that outlive a run.
conn_vars == <<NETMIKO_CONNECTION, handles>>

\* The alert queue file and the calls that work on it.
queue_vars == <<queue_file, ingested, returned, last_result, calls, dq, held>>

vars == <<run_vars, conn_vars, session, peer, queue_vars>>

(* ---- data model (agents/models.py) ---- *)
None == [none |-> TRUE]

ActionTypes == {"diagnostic", "config", "exec", "escalation"}

NextActionTypes == {"continue", "new_action", "escalate", "resolve"}

\* The (action_type, requires_approval) pairs the planner and the analyzer emit.
StepShapes ==
    { [action_type |-> "diagnostic", requires_approval |-> FALSE],
      [action_type |-> "config",     requires_approval |-> TRUE],
      [action_type |-> "exec",       requires_approval |-> FALSE],
      [action_type |-> "escalation", requires_approval |-> FALSE],
      [action_type |-> "escalation", requires_approval |-> TRUE] }

TroubleshootingStep(id, shape) ==
    [id |-> id, action_type |-> shape.action_type,
     requires_approval |-> shape.requires_approval, analysis_report |-> None]

\* Variant: the type of analysis is not validated.
ReportValidatesLax(analysis_type, next_action_type) ==
    next_action_type \in NextActionTypes

\* pydantic validation of ActionAnalysisReport(...): analysis is declared str,
\* next_action_type must match the pattern.
ReportValidates(analysis_type, next_action_type) ==
    analysis_type = "str" /\ next_action_type \in NextActionTypes

ActionAnalysisReport(analysis_type, next_action_type, next_action_reason) ==
    IF ReportValidates(analysis_type, next_action_type)
    THEN [next_action_type |-> next_action_type, next_action_reason |-> next_action_reason]
    ELSE [validation_error |-> TRUE]

IsValidationError(r) == "validation_error" \in DOMAIN r

ReasonAnalysis == "analysis"
ReasonMaxSteps == "Maximum step count has been exceeded. Escalating for human intervention."
ReasonEscalationStep == ""
ReasonRejected == "Action rejected by user."

WithReport(step, report) == [step EXCEPT !.analysis_report = report]

(* ---- text of an approval response ---- *)
Lower(c) ==
    CASE c = "Y" -> "y" [] c = "E" -> "e" [] c = "S" -> "s"
      [] c = "N" -> "n" [] c = "O" -> "o" [] OTHER -> c

LowerText(t) == [i \in 1..Len(t) |-> Lower(t[i])]

IsSpace(c) == c \in {" ", "\t", "\n"}

RECURSIVE LStrip(_)
LStrip(t) == IF t # <<>> /\ IsSpace(Head(t)) THEN LStrip(Tail(t)) ELSE t

RECURSIVE RStrip(_)
RStrip(t) == IF t # <<>> /\ IsSpace(t[Len(t)]) THEN RStrip(SubSeq(t, 1, Len(t) - 1)) ELSE t

Strip(t) == RStrip(LStrip(t))

yes_responses ==
    { <<"y","e","s">>, <<"y">>, <<"t","r","u","e">>, <<"a","p","p","r","o","v","e">>, <<"1">> }

no_responses ==
    { <<"n","o">>, <<"n">>, <<"f","a","l","s","e">>, <<"r","e","j","e","c","t">>, <<"0">> }

IsYes(response_text) == Strip(LowerText(response_text)) \in yes_responses

\* Variant: the response is not lower-cased.
IsNoCaseSensitive(response_text) == Strip(response_text) \in no_responses

IsNo(response_text) == Strip(LowerText(response_text)) \in no_responses

\* The texts a user types at the prompt.
ResponseTexts ==
    { <<"y","e","s">>, <<" ","Y"," ">>, <<"1">>,
      <<"N","O">>, <<"n"," ">>,
      <<"o","k">>, <<>> }

(* ---- the committed state of the thread, as a node reads it ---- *)
State ==
    [settings |-> settings,
     device_facts |-> device_facts,
     action_plan_remaining |-> action_plan_remaining,
     action_plan_history |-> action_plan_history,
     current_step |-> current_step,
     current_step_index |-> current_step_index]

\* Variant: the resumed run sees the history list the interrupted run appended to.
CheckpointStateLive ==
    IF suspended = None THEN State
    ELSE [State EXCEPT !.action_plan_history = suspended.action_plan_history]

\* The state a resumed router run starts from: the checkpoint written before
\* the interrupted run, i.e. the committed state.
CheckpointState == State

\* dict.get(key, default)
DictGet(d, key, default) == IF key \in DOMAIN d THEN d[key] ELSE default

\* Command(update=..., goto=...): the keys of update replace those of the state.
Command(goto, st, update) == [goto |-> goto, state |-> update @@ st]

(* ---- run_action_router_node ---- *)
HasAnalysis(step) == step # None /\ step.analysis_report # None

\* Variant: resolve is not terminal.
IsTerminalVerdictEscalateOnly(next_action_type) == next_action_type = "escalate"

IsTerminalVerdict(next_action_type) ==
    next_action_type = "escalate" \/ next_action_type = "resolve"

\* Variant: the budget is spent when the counter reaches max_steps.
BudgetExceededAtLimit(index, max_steps) == index >= max_steps

BudgetExceeded(index, max_steps) == index > max_steps

\* Variant: the router does not look at the reachability of the device.
ReachableAssumed(facts) == TRUE

Reachable(facts) == DictGet(facts, "reachable", FALSE)

\* Variant: the approval check comes first.
IsEscalationStepUnapproved(step) ==
    step.action_type = "escalation" /\ ~step.requires_approval

IsEscalationStep(step) == step.action_type = "escalation"

\* Variant: only exec steps are gated.
NeedsApprovalExecOnly(step) == step.requires_approval /\ step.action_type = "exec"

NeedsApproval(step) == step.requires_approval

\* Variant: a response that is not an acceptance counts as a rejection.
ApprovalDecisionStrict(responses) ==
    IF responses = <<>> THEN "interrupt"
    ELSE IF IsYes(Head(responses)) THEN "yes"
    ELSE "no"

\* The while loop around interrupt(): the i-th call returns the i-th response.
RECURSIVE ApprovalDecision(_)
ApprovalDecision(responses) ==
    IF responses = <<>> THEN "interrupt"
    ELSE IF IsYes(Head(responses)) THEN "yes"
    ELSE IF IsNo(Head(responses)) THEN "no"
    ELSE ApprovalDecision(Tail(responses))

\* current_step.analysis_report = report; action_plan_history.append(current_step)
\* when current_step is the object appended last: both entries are that object.
AppendAgain(history, step) ==
    Append([history EXCEPT ![Len(history)] = step], step)

\* Lines 553-575: the step counter exceeded max_steps.
BudgetOverflow(st, history, step, max_steps) ==
    LET report == ActionAnalysisReport("list", "escalate", ReasonMaxSteps)
    IN  IF IsValidationError(report)
        THEN [goto |-> "error", state |-> st]
        ELSE Command("result_summary", st,
                     [action_plan_history |-> AppendAgain(history, WithReport(step, report)),
                      current_step |-> WithReport(step, report)])

\* Lines 629-650: an escalation step is not executed.
EscalationStep(st, history, remaining, index, step) ==
    LET report == ActionAnalysisReport("str", "escalate", ReasonEscalationStep)
        done == WithReport(step, report)
    IN  Command("result_summary", st,
                [action_plan_history |-> Append(history, done),
                 action_plan_remaining |-> remaining,
                 current_step_index |-> index,
                 current_step |-> done])

\* Lines 682-700: the user rejected the step.
Rejected(st, history, remaining, index, step) ==
    LET report == ActionAnalysisReport("str", "escalate", ReasonRejected)
        done == WithReport(step, report)
    IN  Command("result_summary", st,
                [action_plan_history |-> Append(history, done),
                 action_plan_remaining |-> remaining,
                 current_step_index |-> index,
                 current_step |-> done])

\* Variant: the step is written to the history when it is dispatched.
DispatchAppending(st, history, remaining, index, step) ==
    Command("action_executor", st,
            [action_plan_history |-> Append(history, step),
             action_plan_remaining |-> remaining,
             current_step_index |-> index,
             current_step |-> step])

\* Variant: the step counter is raised again when a step is dispatched.
DispatchCounting(st, history, remaining, index, step) ==
    Command("action_executor", st,
            [action_plan_history |-> history,
             action_plan_remaining |-> remaining,
             current_step_index |-> index + 1,
             current_step |-> step])

\* Lines 673-681 and 708-716: hand the step to action_executor.
Dispatch(st, history, remaining, index, step) ==
    Command("action_executor", st,
            [action_plan_history |-> history,
             action_plan_remaining |-> remaining,
             current_step_index |-> index,
             current_step |-> step])

\* Lines 605-716: dequeue the head of the remaining plan and gate it.
DequeueAndGate(st, history, index, responses) ==
    LET step == Head(st.action_plan_remaining)
        remaining == Tail(st.action_plan_remaining)
    IN  IF IsEscalationStep(step)
        THEN EscalationStep(st, history, remaining, index, step)
        ELSE IF NeedsApproval(step)
        THEN CASE ApprovalDecision(responses) = "yes" ->
                    Dispatch(st, history, remaining, index, step)
               [] ApprovalDecision(responses) = "no" ->
                    Rejected(st, history, remaining, index, step)
               [] OTHER ->
                    [goto |-> "interrupt", state |-> st,
                     locals |-> [action_plan_history |-> history,
                                 action_plan_remaining |-> remaining,
                                 current_step_index |-> index,
                                 current_step |-> step]]
        ELSE Dispatch(st, history, remaining, index, step)

\* A router that takes the head step off the plan before it tests reachability.
AfterIngestDequeuing(st, history, index, responses) ==
    IF st.action_plan_remaining = <<>>
    THEN Command("result_summary", st,
                 [action_plan_history |-> history,
                  action_plan_remaining |-> st.action_plan_remaining,
                  current_step |-> st.current_step])
    ELSE IF ~Reachable(st.device_facts)
    THEN Command("result_summary", st,
                 [action_plan_history |-> history,
                  action_plan_remaining |-> Tail(st.action_plan_remaining),
                  current_step_index |-> index,
                  current_step |-> Head(st.action_plan_remaining)])
    ELSE DequeueAndGate(st, history, index, responses)

\* Lines 577-603 then the dequeue.
AfterIngest(st, history, index, responses) ==
    IF st.action_plan_remaining = <<>>
    THEN Command("result_summary", st,
                 [action_plan_history |-> history,
                  action_plan_remaining |-> st.action_plan_remaining,
                  current_step |-> st.current_step])
    ELSE IF ~Reachable(st.device_facts)
    THEN Command("result_summary", st,
                 [action_plan_history |-> history,
                  action_plan_remaining |-> st.action_plan_remaining,
                  current_step_index |-> index,
                  current_step |-> st.current_step])
    ELSE DequeueAndGate(st, history, index, responses)

\* The whole node, run on state st with the given responses to its interrupts.
RouterNode(st, responses) ==
    IF HasAnalysis(st.current_step)
    THEN LET history == Append(st.action_plan_history, st.current_step)
             next_action_type == st.current_step.analysis_report.next_action_type
             index == st.current_step_index + 1
             max_steps == DictGet(st.settings, "max_steps", 15)
         IN  IF IsTerminalVerdict(next_action_type)
             THEN Command("result_summary", st, [action_plan_history |-> history])
             ELSE IF BudgetExceeded(index, max_steps)
             THEN BudgetOverflow(st, history, st.current_step, max_steps)
             ELSE AfterIngest(st, history, index, responses)
    ELSE AfterIngest(st, st.action_plan_history, st.current_step_index, responses)

(* ---- run_action_analyzer_node, lines 892-894 ---- *)
\* if analysis_report.updated_action_plan_remaining: (None and [] are falsy)
\* Optional[List[TroubleshootingStep]]: absent (None) or a list.
NoUpdate == [present |-> FALSE, steps |-> <<>>]

UpdateOf(steps) == [present |-> TRUE, steps |-> steps]

\* Variant: the test is `is not None`.
HasUpdateNotNone(updated) == updated.present

HasUpdate(updated) == updated.present /\ updated.steps # <<>>

\* Variant: the update is appended to the remaining plan.
ApplyUpdateExtend(remaining, updated) ==
    IF HasUpdate(updated) THEN remaining \o updated.steps ELSE remaining

ApplyUpdatePrepend(remaining, updated) ==
    IF HasUpdate(updated) THEN updated.steps \o remaining ELSE remaining

ApplyUpdate(remaining, updated) == IF HasUpdate(updated) THEN updated.steps ELSE remaining

(* ---- inputs of the nodes ---- *)
\* Sequences of step shapes of length lo..hi.
ShapeSeqs(lo, hi) == UNION { [1..n -> StepShapes] : n \in lo..hi }

\* The number of step objects that can still be created, at most limit.
Creatable(limit) == IF MaxIds - next_id + 1 < limit THEN MaxIds - next_id + 1 ELSE limit

\* The step objects a collaborator creates from shapes, with fresh identities.
NewSteps(shapes, first_id) ==
    [i \in 1..Len(shapes) |-> TroubleshootingStep(first_id + i - 1, shapes[i])]

\* What test_data["device_facts"] can hold; init_deps takes it verbatim.
DeviceFactsChoices == { [reachable |-> TRUE], [reachable |-> FALSE], [hostname |-> "device"] }

EmptyDict == [k \in {} |-> TRUE]

(* ---- the alert queue (alert_queue.py, streamlit_app.py) ---- *)
\* The callers of dequeue_oldest_alert: the script runs of the app's sessions.
Callers == 1..MaxCallers

\* The payloads of the alerts that are posted.
AlertBodies == {"link_down", "bgp_down"}

\* json.dumps(alert_json, ensure_ascii=False) + '\n': one line of the file.
Dumps(alert) == [format |-> "line", json |-> alert]

\* json.loads(oldest): the object a line holds.
Loads(line) == line.json

\* json.dumps(alert_obj, indent=4, ensure_ascii=False): what a dequeue returns.
DumpsIndented(alert) == [format |-> "indented", json |-> alert]

\* The file when it does not exist.
MissingFile == [exists |-> FALSE, lines |-> <<>>]

\* open(ALERT_QUEUE_FILE, 'a') and one write: the file is created if needed.
AppendLine(file, line) == [exists |-> TRUE, lines |-> Append(file.lines, line)]

\* open(ALERT_QUEUE_FILE, 'w') and writelines.
WriteLines(lines) == [exists |-> TRUE, lines |-> lines]

\* `if not os.path.exists(...)` / `if not lines`: nothing to dequeue.
NothingQueued(file) == ~file.exists \/ file.lines = <<>>

\* Variant: the line taken is the last one of the file.
NewestLine(lines) == lines[Len(lines)]

\* oldest = lines[0]
OldestLine(lines) == Head(lines)

\* lines[1:]
RestLines(lines) == Tail(lines)

\* The value a dequeue returns for the line it took.
Rendered(line) == DumpsIndented(Loads(line))

\* A caller that is not inside dequeue_oldest_alert.
Idle == [pc |-> "idle", lines |-> <<>>, lock |-> 0]

InitQueue ==
    /\ queue_file = MissingFile
    /\ ingested = <<>>
    /\ returned = <<>>
    /\ last_result = None
    /\ calls = 0
    /\ dq = [p \in Callers |-> Idle]
    /\ held = {}

\* receive_alert (POST /alert): the alert is appended as one line.
ReceiveAlert ==
    /\ Len(ingested) < MaxAlerts
    /\ \E body \in AlertBodies :
         LET alert == [id |-> Len(ingested) + 1, body |-> body]
         IN  /\ queue_file' = AppendLine(queue_file, Dumps(alert))
             /\ ingested' = Append(ingested, alert)
    /\ UNCHANGED <<returned, last_result, calls, dq, held, run_vars, conn_vars, session, peer>>

\* dequeue_oldest_alert run from its first line to its return with no other
\* operation on the file in between.
DequeueOldestAlert ==
    /\ calls < MaxDequeues
    /\ calls' = calls + 1
    /\ IF NothingQueued(queue_file)
       THEN /\ last_result' = None
            /\ UNCHANGED <<queue_file, returned>>
       ELSE /\ queue_file' = WriteLines(RestLines(queue_file.lines))
            /\ last_result' = Rendered(OldestLine(queue_file.lines))
            /\ returned' = Append(returned, Rendered(OldestLine(queue_file.lines)))
    /\ UNCHANGED <<ingested, dq, held, run_vars, conn_vars, session, peer>>

\* dequeue_oldest_alert up to f.readlines(): the caller makes a new Lock
\* (line 500), acquires it, and reads the file.
DequeueRead(p) ==
    /\ dq[p].pc = "idle"
    /\ calls < MaxDequeues
    /\ calls' = calls + 1
    /\ (calls + 1) \notin held
    /\ IF NothingQueued(queue_file)
       THEN /\ last_result' = None
            /\ UNCHANGED <<dq, held>>
       ELSE /\ dq' = [dq EXCEPT ![p] = [pc |-> "write", lines |-> queue_file.lines,
                                        lock |-> calls + 1]]
            /\ held' = held \cup {calls + 1}
            /\ UNCHANGED last_result
    /\ UNCHANGED <<queue_file, ingested, returned, run_vars, conn_vars, session, peer>>

\* dequeue_oldest_alert from oldest = lines[0] to its return: the file is
\* rewritten with the other lines that were read and the lock is released.
DequeueWrite(p) ==
    /\ dq[p].pc = "write"
    /\ queue_file' = WriteLines(RestLines(dq[p].lines))
    /\ last_result' = Rendered(OldestLine(dq[p].lines))
    /\ returned' = Append(returned, Rendered(OldestLine(dq[p].lines)))
    /\ held' = held \ {dq[p].lock}
    /\ dq' = [dq EXCEPT ![p] = Idle]
    /\ UNCHANGED <<ingested, calls, run_vars, conn_vars, session, peer>>

(* ---- the connection handle (graph.py, NETMIKO_CONNECTION) ---- *)
\* settings of a real run: neither simulation_mode nor test_mode (line 289).
RealMode(s) == ~DictGet(s, "simulation_mode", TRUE) /\ ~DictGet(s, "test_mode", FALSE)

\* `if NETMIKO_CONNECTION:` a reference to a handle is truthy, None is not.
Truthy(conn) == conn # 0

\* handle.disconnect(): the handle is closed and the call is counted.
Disconnect(hs, h) ==
    [hs EXCEPT ![h] = [open |-> FALSE, disconnects |-> @.disconnects + 1]]

\* `if NETMIKO_CONNECTION: NETMIKO_CONNECTION.disconnect()` (lines 313-320, 937-942).
DisconnectIfSet(hs, conn) == IF Truthy(conn) THEN Disconnect(hs, conn) ELSE hs

\* ConnectHandler(**device_dict): a new open handle.
ConnectHandler(hs) == Append(hs, [open |-> TRUE, disconnects |-> 0])

\* The settings a run is started with.
SettingsChoices ==
    { s \in [max_steps : 1..MaxStepsBound, adaptive_mode : BOOLEAN,
             simulation_mode : BOOLEAN, test_mode : BOOLEAN] :
        ~(s.simulation_mode /\ s.test_mode) }

(* ---- the graph ---- *)
\* The state of a thread before its first node runs.
InitRun ==
    /\ pc = "init_deps"
    /\ settings \in SettingsChoices
    /\ device_facts = EmptyDict
    /\ action_plan_remaining = <<>>
    /\ action_plan_history = <<>>
    /\ current_step = None
    /\ current_step_index = 0
    /\ action_executor_history = <<>>
    /\ resume_values = <<>>
    /\ next_id = 1
    /\ introduced = 0
    /\ discarded = 0
    /\ suspended = None
    /\ gate = None
    /\ planned = NoUpdate
    /\ execution_result = EmptyDict
    /\ last_update = NoUpdate

\* The second session has not started a run.
PeerIdle == [pc |-> "idle", handle |-> 0]

\* A process that has not run the workflow yet: graph.py line 54.
InitProcess ==
    /\ InitRun
    /\ NETMIKO_CONNECTION = 0
    /\ handles = <<>>
    /\ session = 1
    /\ peer = PeerIdle
    /\ InitQueue

\* One run in simulation or test mode.
Init ==
    /\ InitProcess
    /\ ~RealMode(settings)

\* run_init_deps_node of a real run, lines 289-395: the device is missing
\* from the inventory, or ConnectHandler raises, or it returns a handle.
InitDepsReal ==
    /\ pc = "init_deps"
    /\ RealMode(settings)
    /\ \E outcome \in {"not_in_inventory", "connect_failed", "connected"} :
         /\ handles' = CASE outcome = "not_in_inventory" -> handles
                         [] outcome = "connect_failed" ->
                                DisconnectIfSet(handles, NETMIKO_CONNECTION)
                         [] OTHER ->
                                ConnectHandler(DisconnectIfSet(handles, NETMIKO_CONNECTION))
         /\ NETMIKO_CONNECTION' = IF outcome = "connected"
                                  THEN Len(handles) + 1
                                  ELSE NETMIKO_CONNECTION
         /\ device_facts' = [reachable |-> outcome = "connected"]
    /\ pc' = "action_planner"
    /\ UNCHANGED <<settings, action_plan_remaining, action_plan_history, current_step,
                   current_step_index, action_executor_history, resume_values, next_id,
                   introduced, discarded, suspended, gate, planned,
                   execution_result, last_update, session, peer, queue_vars>>

\* run_init_deps_node in simulation or test mode, lines 393-418:
\* device_facts["reachable"] is read at line 418; when the key is missing
\* the node raises and its update of device_facts is never returned.
InitDeps ==
    /\ pc = "init_deps"
    /\ ~RealMode(settings)
    /\ \E facts \in IF DictGet(settings, "test_mode", FALSE)
                    THEN DeviceFactsChoices
                    ELSE {[reachable |-> TRUE]} :
         /\ device_facts' = IF "reachable" \in DOMAIN facts THEN facts ELSE device_facts
         /\ pc' = IF "reachable" \in DOMAIN facts THEN "action_planner" ELSE "error"
    /\ NETMIKO_CONNECTION' = 0
    /\ UNCHANGED <<settings, action_plan_remaining, action_plan_history, current_step,
                   current_step_index, action_executor_history, resume_values, next_id,
                   introduced, discarded, suspended, gate, planned,
                   execution_result, last_update, handles, session,
                   peer, queue_vars>>

\* run_action_planner_node, lines 504-511.
ActionPlanner ==
    /\ pc = "action_planner"
    /\ \E shapes \in ShapeSeqs(0, Creatable(MaxPlanLen)) :
         /\ planned' = UpdateOf(NewSteps(shapes, next_id))
         /\ action_plan_remaining' = NewSteps(shapes, next_id)
         /\ next_id' = next_id + Len(shapes)
         /\ introduced' = introduced + Len(shapes)
    /\ action_plan_history' = <<>>
    /\ current_step_index' = 0
    /\ pc' = "action_router"
    /\ UNCHANGED <<settings, device_facts, current_step, action_executor_history,
                   resume_values, discarded, suspended, gate, execution_result,
                   last_update, conn_vars, session, peer, queue_vars>>

\* Commit the outcome of a router run made with the given responses.
CommitRouter(out, responses) ==
    /\ action_plan_history' = out.state.action_plan_history
    /\ action_plan_remaining' = out.state.action_plan_remaining
    /\ current_step' = out.state.current_step
    /\ current_step_index' = out.state.current_step_index
    /\ pc' = CASE out.goto = "interrupt" -> "awaiting_approval"
               [] OTHER -> out.goto
    /\ resume_values' = IF out.goto = "interrupt" THEN responses ELSE <<>>
    /\ suspended' = IF out.goto = "interrupt" THEN out.locals ELSE None
    /\ gate' = IF responses # <<>>
               THEN [id |-> suspended.current_step.id, text |-> responses[Len(responses)]]
               ELSE None
    /\ last_update' = IF out.goto = "interrupt" THEN last_update ELSE NoUpdate
    /\ UNCHANGED <<settings, device_facts, action_executor_history, next_id,
                   introduced, discarded, planned, execution_result,
                   conn_vars, session, peer, queue_vars>>

\* run_action_router_node entered from action_planner or action_analyzer.
ActionRouter ==
    /\ pc = "action_router"
    /\ CommitRouter(RouterNode(State, <<>>), <<>>)

\* astream(Command(resume=text)): the router runs again from the checkpoint.
Resume ==
    /\ pc = "awaiting_approval"
    /\ \E text \in ResponseTexts :
         LET responses == Append(resume_values, text)
             out == RouterNode(CheckpointState, responses)
         IN  /\ out.goto = "interrupt" => Len(responses) <= MaxPrompts
             /\ CommitRouter(out, responses)

\* What the executor can report in execution_result["errors"]: the test
\* path sets [] (line 749); the tools of the executor agent turn a failure
\* on the connection into an error text of the result.
ExecutionErrors(s) ==
    IF RealMode(s) THEN { <<>>, <<"transport">> } ELSE { <<>> }

\* Variant: the edge out of action_executor leads back to the router.
ActionExecutorSkipsAnalysis ==
    /\ pc = "action_executor"
    /\ \E errors \in ExecutionErrors(settings) :
         execution_result' = [errors |-> errors]
    /\ action_executor_history' = Append(action_executor_history, current_step)
    /\ pc' = "action_router"
    /\ UNCHANGED <<settings, device_facts, action_plan_remaining, action_plan_history,
                   current_step, current_step_index, resume_values, next_id,
                   introduced, discarded, suspended, gate, planned, last_update,
                   conn_vars, session, peer, queue_vars>>

\* run_action_executor_node, lines 733-826.
ActionExecutor ==
    /\ pc = "action_executor"
    /\ \E errors \in ExecutionErrors(settings) :
         execution_result' = [errors |-> errors]
    /\ action_executor_history' = Append(action_executor_history, current_step)
    /\ pc' = "action_analyzer"
    /\ UNCHANGED <<settings, device_facts, action_plan_remaining, action_plan_history,
                   current_step, current_step_index, resume_values, next_id,
                   introduced, discarded, suspended, gate, planned, last_update,
                   conn_vars, session, peer, queue_vars>>

\* The node of run_action_analyzer_node once the analysis agent has
\* returned a verdict and an updated_action_plan_remaining.
Analyze(verdict, updated, created) ==
    /\ action_plan_remaining' = ApplyUpdate(action_plan_remaining, updated)
    /\ current_step' = WithReport(current_step,
                           ActionAnalysisReport("str", verdict, ReasonAnalysis))
    /\ last_update' = updated
    /\ planned' = IF HasUpdate(updated) THEN NoUpdate ELSE planned
    /\ next_id' = next_id + created
    /\ introduced' = introduced + created
    /\ discarded' = IF HasUpdate(updated)
                    THEN discarded + Len(action_plan_remaining)
                    ELSE discarded
    /\ pc' = "action_router"
    /\ UNCHANGED <<settings, device_facts, action_plan_history, current_step_index,
                   action_executor_history, resume_values, suspended, gate,
                   execution_result, conn_vars, session, peer, queue_vars>>

\* run_action_analyzer_node: the analysis agent returns a verdict and
\* optionally a replacement for the remaining plan, made of new steps.
ActionAnalyzer ==
    /\ pc = "action_analyzer"
    /\ \E verdict \in NextActionTypes,
          updated \in {NoUpdate} \cup
                      { UpdateOf(NewSteps(shapes, next_id)) :
                            shapes \in ShapeSeqs(0, Creatable(MaxReplanLen)) } :
         Analyze(verdict, updated, Len(updated.steps))

\* Variant: the reset leaves the last step and the step counter in place.
ResultSummaryKeepsStep ==
    /\ pc = "result_summary"
    /\ handles' = DisconnectIfSet(handles, NETMIKO_CONNECTION)
    /\ planned' = NoUpdate
    /\ action_plan_remaining' = <<>>
    /\ action_plan_history' = <<>>
    /\ action_executor_history' = <<>>
    /\ execution_result' = EmptyDict
    /\ device_facts' = EmptyDict
    /\ settings' = EmptyDict
    /\ pc' = "END"
    /\ UNCHANGED <<resume_values, next_id, introduced, discarded, suspended, gate,
                   last_update, NETMIKO_CONNECTION, session, peer, current_step,
                   current_step_index, queue_vars>>

\* run_result_summary_node, lines 937-972.
ResultSummary ==
    /\ pc = "result_summary"
    /\ handles' = DisconnectIfSet(handles, NETMIKO_CONNECTION)
    /\ planned' = NoUpdate
    /\ action_plan_remaining' = <<>>
    /\ action_plan_history' = <<>>
    /\ current_step_index' = 0
    /\ current_step' = None
    /\ action_executor_history' = <<>>
    /\ execution_result' = EmptyDict
    /\ device_facts' = EmptyDict
    /\ settings' = EmptyDict
    /\ pc' = "END"
    /\ UNCHANGED <<resume_values, next_id, introduced, discarded, suspended, gate,
                   last_update, NETMIKO_CONNECTION, session, peer, queue_vars>>

Next ==
    \/ InitDeps
    \/ ActionPlanner
    \/ ActionRouter
    \/ Resume
    \/ ActionExecutor
    \/ ActionAnalyzer
    \/ ResultSummary

Spec == Init /\ [][Next]_vars

\* One run whose nodes are scheduled whenever they can run: the graph runs
\* the node an edge or a Command names, and every pending approval is
\* answered.
SpecFair == Spec /\ WF_vars(Next)

\* The step the executor has just run, as the analysis agent writes it
\* again in an updated_action_plan_remaining.
Rewritten(step) == [step EXCEPT !.analysis_report = None]

\* run_action_analyzer_node when the analysis agent returns a remaining
\* plan that starts with the step that has just been executed.
ActionAnalyzerDup ==
    /\ pc = "action_analyzer"
    /\ \E verdict \in NextActionTypes,
          shapes \in ShapeSeqs(0, Creatable(MaxReplanLen - 1)) :
         Analyze(verdict,
                 UpdateOf(<<Rewritten(current_step)>> \o NewSteps(shapes, next_id)),
                 Len(shapes))

NextDup ==
    \/ Next
    \/ ActionAnalyzerDup

\* One run whose analysis agent may repeat the executed step.
SpecDup == Init /\ [][NextDup]_vars

\* A further run of the workflow in the same process, on a new thread: the
\* module global NETMIKO_CONNECTION and the handles it has created remain.
NewSession ==
    /\ pc \in {"END", "error"}
    /\ session < MaxSessions
    /\ session' = session + 1
    /\ pc' = "init_deps"
    /\ settings' \in SettingsChoices
    /\ device_facts' = EmptyDict
    /\ action_plan_remaining' = <<>>
    /\ action_plan_history' = <<>>
    /\ current_step' = None
    /\ current_step_index' = 0
    /\ action_executor_history' = <<>>
    /\ resume_values' = <<>>
    /\ next_id' = 1
    /\ introduced' = 0
    /\ discarded' = 0
    /\ suspended' = None
    /\ gate' = None
    /\ planned' = NoUpdate
    /\ execution_result' = EmptyDict
    /\ last_update' = NoUpdate
    /\ UNCHANGED <<conn_vars, peer, queue_vars>>

NextSessions ==
    \/ Next
    \/ InitDepsReal
    \/ NewSession

\* Consecutive runs of one process, in any mode.
SpecSessions == InitProcess /\ [][NextSessions]_vars

\* astream({"latest_user_message", "settings"}, config) on the cached
\* thread_id while the thread's last run is suspended at the approval gate
\* or has stopped with an error (streamlit_app.py lines 94-102, 125-131,
\* 475-478): the graph starts again at init_deps on the checkpointed state,
\* the input overwrites settings, the pending interrupt is dropped, and
\* every other key of the state keeps its checkpointed value.
NewRunOnThread ==
    /\ pc \in {"awaiting_approval", "error"}
    /\ session < MaxSessions
    /\ session' = session + 1
    /\ pc' = "init_deps"
    /\ settings' \in {s \in SettingsChoices : ~RealMode(s)}
    /\ resume_values' = <<>>
    /\ suspended' = None
    /\ gate' = None
    /\ introduced' = 0
    /\ discarded' = 0
    /\ planned' = NoUpdate
    /\ last_update' = NoUpdate
    /\ UNCHANGED <<device_facts, action_plan_remaining, action_plan_history,
                   current_step, current_step_index, action_executor_history,
                   next_id, execution_result, conn_vars, peer, queue_vars>>

NextThread ==
    \/ Next
    \/ NewRunOnThread

\* Runs in simulation or test mode that follow one another on one thread
\* of the checkpointer, each started before the last reached result_summary.
SpecThread == Init /\ [][NextThread]_vars

\* run_init_deps_node of the second session, a real run, lines 289-395: the
\* same statements as InitDepsReal, on the module global both sessions share.
PeerInitDeps ==
    /\ peer.pc = "idle"
    /\ \E outcome \in {"not_in_inventory", "connect_failed", "connected"} :
         /\ handles' = CASE outcome = "not_in_inventory" -> handles
                         [] outcome = "connect_failed" ->
                                DisconnectIfSet(handles, NETMIKO_CONNECTION)
                         [] OTHER ->
                                ConnectHandler(DisconnectIfSet(handles, NETMIKO_CONNECTION))
         /\ NETMIKO_CONNECTION' = IF outcome = "connected"
                                  THEN Len(handles) + 1
                                  ELSE NETMIKO_CONNECTION
         /\ peer' = [pc |-> "running",
                     handle |-> IF outcome = "connected" THEN Len(handles) + 1 ELSE 0]
    /\ UNCHANGED <<run_vars, session, queue_vars>>

\* run_result_summary_node of the second session, lines 937-942; its other
\* nodes leave the global and the handles as they are.
PeerResultSummary ==
    /\ peer.pc = "running"
    /\ handles' = DisconnectIfSet(handles, NETMIKO_CONNECTION)
    /\ peer' = [peer EXCEPT !.pc = "END"]
    /\ UNCHANGED <<run_vars, NETMIKO_CONNECTION, session, queue_vars>>

InitTwoSessions ==
    /\ InitProcess
    /\ RealMode(settings)

NextTwoSessions ==
    \/ InitDepsReal
    \/ ActionPlanner
    \/ ActionRouter
    \/ Resume
    \/ ActionExecutor
    \/ ActionAnalyzer
    \/ ResultSummary
    \/ PeerInitDeps
    \/ PeerResultSummary

\* Two sessions of one process in real mode, their nodes interleaved: one
\* in full, the other reduced to the nodes that touch NETMIKO_CONNECTION.
SpecTwoSessions == InitTwoSessions /\ [][NextTwoSessions]_vars

NextQueue ==
    \/ ReceiveAlert
    \/ DequeueOldestAlert

\* The alert service and the app's dequeue taking turns on the queue file.
SpecQueue == InitProcess /\ [][NextQueue]_vars

NextQueueConcurrent ==
    \/ ReceiveAlert
    \/ \E p \in Callers : DequeueRead(p)
    \/ \E p \in Callers : DequeueWrite(p)

\* The alert service and several callers of dequeue working on the queue
\* file at the same time.
SpecQueueConcurrent == InitProcess /\ [][NextQueueConcurrent]_vars

(* ---- vocabulary of the properties ---- *)
Last(seq) == seq[Len(seq)]

Occurrences(seq, id) == Cardinality({i \in 1..Len(seq) : seq[i].id = id})

\* A step is in flight: dequeued and not yet appended to history.
InFlight == current_step # None /\ Occurrences(action_plan_history, current_step.id) = 0

\* The session is between its construction and the reset of result_summary.
InSession == pc # "END"

\* The verdict the router is about to ingest, "none" when there is none.
PendingVerdict ==
    IF current_step # None /\ current_step.analysis_report # None
    THEN current_step.analysis_report.next_action_type
    ELSE "none"

\* The router is about to run on a step whose continue/new_action verdict
\* takes the step counter past max_steps.
OverBudget ==
    /\ pc = "action_router"
    /\ PendingVerdict \in {"continue", "new_action"}
    /\ current_step_index + 1 > settings.max_steps

C2_BudgetRespected ==
    InSession => Len(action_executor_history) <= settings.max_steps

(* ---- C3 ---- *)
\* C3: when the step counter exceeds max_steps the router completes, records
\* a synthetic escalate report (reason: maximum step count exceeded) on the
\* current step and routes to result_summary; it does not end in an error.
C3_OverflowEscalates ==
    [][OverBudget =>
         /\ pc' = "result_summary"
         /\ action_plan_history' # <<>>
         /\ Last(action_plan_history').id = current_step.id
         /\ Last(action_plan_history').analysis_report =
                [next_action_type |-> "escalate", next_action_reason |-> ReasonMaxSteps]]_vars

(* ---- C4 ---- *)
AcceptSet ==
    { <<"y","e","s">>, <<"y">>, <<"t","r","u","e">>, <<"a","p","p","r","o","v","e">>, <<"1">> }

RejectSet ==
    { <<"n","o">>, <<"n">>, <<"f","a","l","s","e">>, <<"r","e","j","e","c","t">>, <<"0">> }

Normalized(text) == Strip(LowerText(text))

\* C4: a step with requires_approval = true is at action_executor only after
\* the workflow suspended at the approval gate for it and was resumed with a
\* response of the accept-set.
C4_ApprovalGateSafety ==
    (pc = "action_executor" /\ current_step.requires_approval) =>
        /\ gate # None
        /\ gate.id = current_step.id
        /\ Normalized(gate.text) \in AcceptSet

\* A step that requires approval has been dispatched.
C4_Witness ==
    /\ pc = "action_executor"
    /\ current_step.requires_approval
    /\ action_plan_history # <<>>

(* ---- C5 ---- *)
\* The committed state, had the step at the head of the plan needed no approval.
NoApprovalState ==
    [State EXCEPT !.action_plan_remaining[1].requires_approval = FALSE]

\* C5: an accepting resume dispatches exactly the suspended step, with the
\* history, remaining plan and step counter the router had at the suspension,
\* which are those of a run in which the step needed no approval; the step is
\* the head of the remaining plan and is not in history.
C5_ResumeAtSuspensionPoint ==
    [][(pc = "awaiting_approval" /\ pc' = "action_executor") =>
         LET ref == RouterNode(NoApprovalState, <<>>)
         IN  /\ current_step' = suspended.current_step
             /\ current_step' = Head(action_plan_remaining)
             /\ action_plan_history' = suspended.action_plan_history
             /\ action_plan_remaining' = suspended.action_plan_remaining
             /\ current_step_index' = suspended.current_step_index
             /\ ref.goto = "action_executor"
             /\ action_plan_history' = ref.state.action_plan_history
             /\ action_plan_remaining' = ref.state.action_plan_remaining
             /\ current_step_index' = ref.state.current_step_index
             /\ current_step'.id = ref.state.current_step.id
             /\ Occurrences(action_plan_history', current_step'.id) = 0
             /\ \A i, j \in 1..Len(action_plan_history') :
                    i # j => action_plan_history'[i].id # action_plan_history'[j].id]_vars

\* A session resumed with an accepting response after an executed step.
C5_Witness ==
    /\ pc = "action_executor"
    /\ gate # None
    /\ Normalized(gate.text) \in AcceptSet
    /\ gate.id = current_step.id
    /\ Len(action_plan_history) >= 1
    /\ action_plan_remaining # <<>>

(* ---- C6 ---- *)
\* C6: with adaptive_mode = false a new_action verdict never replaces the
\* remaining plan.
C6_NoReplanWhenNotAdaptive ==
    [][(/\ pc = "action_analyzer"
        /\ ~settings.adaptive_mode
        /\ current_step'.analysis_report # None
        /\ current_step'.analysis_report.next_action_type = "new_action")
       => action_plan_remaining' = action_plan_remaining]_vars

(* ---- C7 ---- *)
PartitionSize ==
    Len(action_plan_history) + Len(action_plan_remaining) + (IF InFlight THEN 1 ELSE 0)

\* C7 as stated: history, remaining and the step in flight add up to the
\* initial plan plus the steps introduced by replans.
C7_PartitionOriginal == InSession => PartitionSize = introduced

\* C7: history, remaining and the step in flight add up to the initial plan
\* plus the steps introduced by replans minus the remaining steps that the
\* replans replaced.
C7_Partition == InSession => PartitionSize = introduced - discarded

\* A replan replaced pending steps and the session went on.
C7_Witness ==
    /\ InSession
    /\ discarded > 0
    /\ action_plan_history # <<>>
    /\ InFlight

(* ---- C8 ---- *)
\* C8: the router ingesting an escalate or resolve verdict appends the step
\* to history and routes to result_summary, leaving the remaining plan alone;
\* from result_summary on, no step is dequeued or dispatched.
C8_TerminalShortCircuit ==
    [][/\ (pc = "action_router" /\ PendingVerdict \in {"escalate", "resolve"}) =>
            /\ pc' = "result_summary"
            /\ action_plan_history' = Append(action_plan_history, current_step)
            /\ action_plan_remaining' = action_plan_remaining
            /\ current_step' = current_step
            /\ action_executor_history' = action_executor_history
       /\ pc \in {"result_summary", "END"} =>
            /\ pc' \in {"result_summary", "END"}
            /\ Len(action_executor_history') <= Len(action_executor_history)]_vars

\* The router ended a session on a resolve verdict with steps still pending.
C8_Witness ==
    /\ pc = "result_summary"
    /\ PendingVerdict = "resolve"
    /\ current_step.analysis_report.next_action_reason = ReasonAnalysis
    /\ action_plan_remaining # <<>>
    /\ Last(action_plan_history) = current_step

(* ---- C9 ---- *)
\* The router is about to run and will get as far as dequeuing a step.
ReachesDequeue ==
    /\ pc = "action_router"
    /\ action_plan_remaining # <<>>
    /\ "reachable" \in DOMAIN device_facts
    /\ device_facts.reachable
    /\ \/ PendingVerdict = "none"
       \/ /\ PendingVerdict \in {"continue", "new_action"}
          /\ current_step_index + 1 <= settings.max_steps

\* C9: no escalation step is dispatched to or run by action_executor; the
\* router that dequeues one appends it to history once, with a synthetic
\* escalate report, and routes to result_summary.
C9_EscalationStepNotExecuted ==
    [][/\ pc' = "action_executor" => current_step'.action_type # "escalation"
       /\ \A i \in 1..Len(action_executor_history') :
              action_executor_history'[i].action_type # "escalation"
       /\ (ReachesDequeue /\ Head(action_plan_remaining).action_type = "escalation") =>
              /\ pc' = "result_summary"
              /\ action_plan_remaining' = Tail(action_plan_remaining)
              /\ Last(action_plan_history').id = Head(action_plan_remaining).id
              /\ Last(action_plan_history').analysis_report # None
              /\ Last(action_plan_history').analysis_report.next_action_type = "escalate"
              /\ Occurrences(action_plan_history', Head(action_plan_remaining).id) = 1
              /\ action_executor_history' = action_executor_history]_vars

\* An escalation step that also asks for approval ended the session after an
\* executed step.
C9_Witness ==
    /\ pc = "result_summary"
    /\ Len(action_plan_history) >= 2
    /\ Last(action_plan_history).action_type = "escalation"
    /\ Last(action_plan_history).requires_approval
    /\ Last(action_plan_history).analysis_report.next_action_reason = ReasonEscalationStep

(* ---- C10 ---- *)
\* C10: a response of the reject-set at the approval gate for step s routes
\* to result_summary with s appended to history exactly once, carrying a
\* synthetic escalate report whose reason is the rejection by the user, with
\* the remaining plan equal to the steps that followed s, and s not executed.
C10_UserRejection ==
    [][(pc = "awaiting_approval" /\ gate' # None /\ Normalized(gate'.text) \in RejectSet) =>
         LET s == suspended.current_step
         IN  /\ pc' = "result_summary"
             /\ Head(action_plan_remaining) = s
             /\ action_plan_remaining' = Tail(action_plan_remaining)
             /\ Last(action_plan_history').id = s.id
             /\ Last(action_plan_history').analysis_report =
                    [next_action_type |-> "escalate", next_action_reason |-> ReasonRejected]
             /\ Occurrences(action_plan_history', s.id) = 1
             /\ \A i \in 1..Len(action_executor_history') :
                    action_executor_history'[i].id # s.id]_vars

\* The user rejected a step after an executed one, with steps still pending.
C10_Witness ==
    /\ pc = "result_summary"
    /\ gate # None
    /\ Normalized(gate.text) \in RejectSet
    /\ Len(action_plan_history) >= 2
    /\ Last(action_plan_history).analysis_report.next_action_reason = ReasonRejected
    /\ action_plan_remaining # <<>>

(* ---- C11 ---- *)
\* The analysis the analyzer node has just applied carried a non-empty
\* updated_action_plan_remaining.
Replanned(update) == update.present /\ update.steps # <<>>

\* C11: with adaptive_mode on, an analysis that carries a non-empty
\* updated_action_plan_remaining leaves exactly that sequence as the
\* remaining plan and leaves the history alone, and the next step the router
\* dispatches is the first step of that sequence.
C11_ReplanReplaces ==
    [][ /\ ( /\ pc = "action_analyzer"
             /\ pc' = "action_router"
             /\ settings.adaptive_mode
             /\ Replanned(last_update') )
           => /\ action_plan_remaining' = last_update'.steps
              /\ action_plan_history' = action_plan_history
        /\ ( /\ pc \in {"action_router", "awaiting_approval"}
             /\ pc' = "action_executor"
             /\ settings.adaptive_mode
             /\ Replanned(last_update) )
           => current_step' = Head(last_update.steps) ]_vars

\* A run in adaptive mode whose first step was followed by a replan that
\* threw steps away, and the first step of the replacement is dispatched.
C11_Witness ==
    /\ pc = "action_executor"
    /\ settings.adaptive_mode
    /\ Len(action_executor_history) = 1
    /\ discarded > 0
    /\ current_step.id = discarded + 2

(* ---- C12 ---- *)
\* The analysis just applied returned a remaining plan whose first step is
\* the step that has just been executed.
DuplicateHead ==
    /\ pc \in {"action_router", "awaiting_approval"}
    /\ current_step # None
    /\ Replanned(last_update)
    /\ Head(last_update.steps).id = current_step.id

\* C12: when the analysis returns a remaining plan that starts with the
\* step just executed, the router drops that leading duplicate: the step it
\* dispatches next is not the step just executed.
C12_DuplicateHeadDropped ==
    [][ (DuplicateHead /\ pc' = "action_executor")
            => current_step'.id # current_step.id ]_vars

(* ---- C13 ---- *)
\* device_facts records the device as not reachable.
Unreachable == DictGet(device_facts, "reachable", FALSE) = FALSE

\* C13: a router cycle that finds the device not reachable while steps
\* remain goes to result_summary without taking a step off the remaining
\* plan, and no step is dispatched while the device is recorded as not
\* reachable; this holds for every router cycle.
C13_ReachabilityGate ==
    [][ /\ (pc = "action_router" /\ Unreachable /\ action_plan_remaining # <<>>)
           => /\ pc' = "result_summary"
              /\ action_plan_remaining' = action_plan_remaining
              /\ action_executor_history' = action_executor_history
        /\ Unreachable => pc' \notin {"action_executor", "awaiting_approval"} ]_vars

\* The router has sent a run with a non-empty plan and an unreachable
\* device to result_summary, and nothing was executed.
C13_Witness ==
    /\ pc = "result_summary"
    /\ Unreachable
    /\ action_plan_remaining # <<>>
    /\ action_executor_history = <<>>

(* ---- C14 ---- *)
\* The planner's plan has at most max_steps steps, none of them an
\* escalation step or a step that requires approval, and no replan has
\* replaced any of it.
PlainPlan ==
    /\ planned.present
    /\ Len(planned.steps) <= settings.max_steps
    /\ \A i \in 1..Len(planned.steps) :
          /\ planned.steps[i].action_type # "escalation"
          /\ ~planned.steps[i].requires_approval

\* Every analysis made so far returned continue.
AllContinue ==
    /\ \A i \in 1..Len(action_plan_history) :
          action_plan_history[i].analysis_report.next_action_type = "continue"
    /\ PendingVerdict \in {"none", "continue"}

\* The history holds the steps of the plan, in the order of the plan.
HistoryIsPlan ==
    /\ Len(action_plan_history) = Len(planned.steps)
    /\ \A i \in 1..Len(planned.steps) :
          Rewritten(action_plan_history[i]) = planned.steps[i]

\* C14: a run with a reachable device whose plan of n <= max_steps steps
\* has no escalation or approval step, whose analyses all return continue
\* and which is never replanned does not fail and does not suspend, never
\* dispatches more than n steps, and when it reaches result_summary it has
\* dispatched exactly n steps, its history is the plan in order and its
\* remaining plan is empty.
C14_PlanExhaustion ==
    (PlainPlan /\ AllContinue /\ ~Unreachable)
        => /\ pc \notin {"error", "awaiting_approval"}
           /\ Len(action_executor_history) <= Len(planned.steps)
           /\ pc = "result_summary"
                 => /\ Len(action_executor_history) = Len(planned.steps)
                    /\ HistoryIsPlan
                    /\ action_plan_remaining = <<>>

\* A plan of two plain steps has run to result_summary.
C14_Witness ==
    /\ pc = "result_summary"
    /\ PlainPlan /\ AllContinue /\ ~Unreachable
    /\ Len(planned.steps) = 2
    /\ Len(action_executor_history) = 2

(* ---- C15 ---- *)
\* C15: a run that has entered the router loop eventually reaches
\* result_summary and then END, whatever the verdicts and the replans.
C15_Terminates == (pc = "action_router") ~> (pc = "END")

(* ---- C16 ---- *)
\* C16: disconnect() is called at most once on every connection handle,
\* and when a run has ended at END no handle is left open.
C16_HandleLifecycle ==
    /\ \A h \in 1..Len(handles) : handles[h].disconnects <= 1
    /\ pc = "END" => \A h \in 1..Len(handles) : ~handles[h].open

(* ---- C17 ---- *)
\* The executor reported a failure of the connection for the step it ran.
TransportFault(result) ==
    "errors" \in DOMAIN result /\ result.errors # <<>>

\* C17: when the execution of a step fails on the connection, the executor
\* node records the device as not reachable, and the router cycle that
\* follows goes to result_summary.
C17_TransportFaultTerminal ==
    [][ /\ ( /\ pc = "action_executor"
             /\ pc' = "action_analyzer"
             /\ TransportFault(execution_result') )
           => DictGet(device_facts', "reachable", FALSE) = FALSE
        /\ (pc = "action_router" /\ TransportFault(execution_result))
           => pc' = "result_summary" ]_vars

(* ---- C18 ---- *)
\* C18: once result_summary has run, the history and the remaining plan
\* are empty, there is no current step and the step counter is 0.
C18_ResetOnTermination ==
    pc = "END"
        => /\ action_plan_history = <<>>
           /\ action_plan_remaining = <<>>
           /\ current_step = None
           /\ current_step_index = 0

\* A run in which a step was executed and analysed and a replan threw
\* steps away has passed result_summary.
C18_Witness ==
    /\ pc = "END"
    /\ discarded > 0
    /\ current_step = None
    /\ action_plan_history = <<>>

(* ---- C19 ---- *)
\* The alerts a sequence of JSON texts holds.
Alerts(texts) == [i \in 1..Len(texts) |-> Loads(texts[i])]

\* A dequeue call starts in this step.
DequeueStarts == calls' = calls + 1

\* C19: when ingests and dequeues take turns, the alerts returned so far
\* followed by the alerts still in the file are the alerts ingested, in the
\* order of their ingestion; a dequeue that finds lines returns the oldest
\* alert not yet returned and removes its line; a dequeue that finds the
\* file missing or empty returns None and changes nothing.
C19_QueueFifo ==
    [][ /\ Alerts(returned') \o Alerts(queue_file'.lines) = ingested'
        /\ (DequeueStarts /\ NothingQueued(queue_file))
           => /\ last_result' = None
              /\ queue_file' = queue_file
              /\ returned' = returned
        /\ (DequeueStarts /\ ~NothingQueued(queue_file))
           => /\ last_result' = DumpsIndented(ingested[Len(returned) + 1])
              /\ returned' = Append(returned, last_result')
              /\ queue_file'.lines = Tail(queue_file.lines) ]_vars

\* Three alerts were ingested, one dequeue found nothing and two dequeues
\* returned an alert each.
C19_Witness ==
    /\ Len(ingested) = 3
    /\ calls = 3
    /\ Len(returned) = 2
    /\ Len(queue_file.lines) = 1
    /\ \A p \in Callers : dq[p] = Idle

(* ---- C20 ---- *)
\* How many times an alert occurs in a sequence of alerts.
Copies(alerts, alert) == Cardinality({i \in 1..Len(alerts) : alerts[i] = alert})

\* No caller is inside dequeue_oldest_alert.
Quiescent == \A p \in Callers : dq[p].pc = "idle"

\* C20: at most one caller is between the read and the rewrite of the
\* queue file, and the calls have the effect of calls made one at a time:
\* once they have returned, every ingested alert either was returned by
\* exactly one dequeue or is still in the file, once.
C20_DequeueExclusive ==
    /\ Cardinality({p \in Callers : dq[p].pc = "write"}) <= 1
    /\ Quiescent
         => \A i \in 1..Len(ingested) :
               Copies(Alerts(returned), ingested[i])
                 + Copies(Alerts(queue_file.lines), ingested[i]) = 1

(* ---- C21 ---- *)
\* The response just given at the approval gate is neither an acceptance
\* nor a rejection.
Unrecognised(text) == Normalized(text) \notin (AcceptSet \cup RejectSet)

C22_HistoryAtIngestion ==
    /\ \A i \in 1..Len(action_plan_history) :
          action_plan_history[i].analysis_report # None
    /\ (pc \notin {"result_summary", "END"} /\ current_step # None)
          => Occurrences(action_plan_history, current_step.id) = 0

\* A step is at the executor while the history holds an ingested step.
C22_Witness ==
    /\ pc = "action_executor"
    /\ action_plan_history # <<>>
    /\ current_step.analysis_report = None

(* ---- C23 ---- *)
\* The executed steps whose analysis the router has not ingested yet.
Uningested ==
    { i \in 1..Len(action_executor_history) :
        Occurrences(action_plan_history, action_executor_history[i].id) = 0 }

\* C23: action_executor is followed by action_analyzer, action_analyzer and
\* action_planner by the router, result_summary by END; only the router has
\* several successors (action_executor, result_summary, or the suspension
\* and the failure of its own run).  Only action_executor executes a step,
\* one per run of the node, and when a step is at action_executor every
\* step executed before it has been analysed and ingested: at most one
\* executed step is ever waiting for its analysis or its ingestion.
C23_StrictSequencing ==
    [][ /\ pc = "action_executor" => pc' = "action_analyzer"
        /\ pc = "action_analyzer" => pc' = "action_router"
        /\ pc = "action_planner" => pc' = "action_router"
        /\ pc = "result_summary" => pc' = "END"
        /\ pc \in {"action_router", "awaiting_approval"}
              => pc' \in {"action_executor", "result_summary", "awaiting_approval", "error"}
        /\ pc' = "action_executor" => pc \in {"action_router", "awaiting_approval"}
        /\ action_executor_history' # action_executor_history
              => \/ /\ pc = "action_executor"
                    /\ Uningested = {}
                    /\ Len(action_executor_history') = Len(action_executor_history) + 1
                 \/ /\ pc = "result_summary"
                    /\ action_executor_history' = <<>>
        /\ Cardinality(Uningested') <= 1 ]_vars

\* A second step is at action_executor after the first was executed,
\* analysed and ingested.
C23_Witness ==
    /\ pc = "action_executor"
    /\ Len(action_executor_history) = 1
    /\ Uningested = {}
    /\ Len(action_plan_history) = 1

(* ---- C24 ---- *)
\* C24: whenever a step is at action_executor, current_step_index equals
\* the length of action_plan_history, the number of steps executed and
\* ingested so far, whatever replans took place.
C24_IndexTracksHistory ==
    pc = "action_executor" => current_step_index = Len(action_plan_history)

\* The second step of a run is dispatched after a replan threw steps away.
C24_Witness ==
    /\ pc = "action_executor"
    /\ current_step_index = 1
    /\ Len(action_plan_history) = 1
    /\ discarded > 0

(* ---- C25 ---- *)
\* C25: when the analysis carries no updated_action_plan_remaining, or an
\* empty one, the analyzer node leaves action_plan_remaining as it was,
\* whatever the verdict; no run of the analyzer node turns a non-empty
\* remaining plan into an empty one.
C25_EmptyReplacementIgnored ==
    [][(pc = "action_analyzer" /\ pc' = "action_router") =>
         /\ (~last_update'.present \/ last_update'.steps = <<>>)
               => action_plan_remaining' = action_plan_remaining
         /\ action_plan_remaining # <<>> => action_plan_remaining' # <<>> ]_vars

\* An analysis with an empty replacement list was applied to a run with
\* steps remaining.
C25_Witness ==
    /\ pc = "action_router"
    /\ last_update = UpdateOf(<<>>)
    /\ action_plan_remaining # <<>>
    /\ HasAnalysis(current_step)

(* ---- C26 ---- *)
\* An escalation step that also requires approval.
GatedEscalation(step) == step.action_type = "escalation" /\ step.requires_approval

\* C26: a run is never suspended at the approval gate for a step with
\* action_type = escalation and requires_approval = true and no response is
\* ever taken for it; such a step enters the history only as its last
\* entry, with the synthetic escalate report of an escalation step, on the
\* way to result_summary, and is never executed.
C26_EscalationBeforeApproval ==
    /\ pc = "awaiting_approval" => ~GatedEscalation(suspended.current_step)
    /\ \A i \in 1..Len(action_plan_history) :
          GatedEscalation(action_plan_history[i])
            => /\ i = Len(action_plan_history)
               /\ pc = "result_summary"
               /\ gate = None
               /\ action_plan_history[i].analysis_report =
                      [next_action_type |-> "escalate",
                       next_action_reason |-> ReasonEscalationStep]
    /\ \A i \in 1..Len(action_executor_history) :
          ~GatedEscalation(action_executor_history[i])

\* A run ended on an escalation step that requires approval, after an
\* executed step.
C26_Witness ==
    /\ pc = "result_summary"
    /\ Len(action_plan_history) = 2
    /\ GatedEscalation(Last(action_plan_history))
    /\ Len(action_executor_history) = 1

(* ---- C27 ---- *)
\* C27: when the router has terminated a run with a non-empty plan because
\* the device is not reachable, the remaining plan handed to result_summary
\* is the whole plan the cycle started with, the history has no entry and
\* no step has been made current: nothing was dequeued and no synthetic
\* report was written.
C27_UnreachableFrame ==
    (pc = "result_summary" /\ Unreachable /\ planned.present /\ planned.steps # <<>>)
       => /\ action_plan_remaining = planned.steps
          /\ action_plan_history = <<>>
          /\ current_step = None
          /\ discarded = 0

\* An unreachable device ended the run with the whole plan of several steps
\* still remaining.
C27_Witness ==
    /\ pc = "result_summary"
    /\ Unreachable
    /\ planned.present
    /\ Len(action_plan_remaining) >= 2
    /\ action_plan_history = <<>>

(* ---- C28 ---- *)
\* The run crashed in init_deps: nothing was written to device_facts and
\* the router never ran.
CrashedBeforeRouter == pc = "error" /\ device_facts = EmptyDict

\* C28: device facts without a reachable key (as test data can supply them)
\* are treated as an unreachable device: the run gets to the router, which
\* ends it through result_summary with no step executed, so no run stops
\* with an error before the router has seen the facts.
C28_MissingKeyMeansUnreachable == ~CrashedBeforeRouter

(* ---- C29 ---- *)
\* C29: with two real-mode sessions interleaved, whenever a step has been
\* dispatched to action_executor the module global refers to a connection,
\* that connection is not the one the other session opened, and it is open.
C29_HandleBelongsToSession ==
    pc = "action_executor"
        => /\ Truthy(NETMIKO_CONNECTION)
           /\ NETMIKO_CONNECTION # peer.handle
           /\ handles[NETMIKO_CONNECTION].open

(* ---- C30 ---- *)
\* The identity of the first step the planner of the run in progress created.
FirstOfRun == next_id - introduced

\* The step was created by the planner or a replan of the run in progress.
OfCurrentRun(step) == step.id >= FirstOfRun

\* C30: on a thread whose last run did not reach result_summary, a new run
\* carries no step over: history is empty when the first step of the new
\* plan is dispatched, and once the run's planner has created its steps
\* every history entry is a step that the planner or a replan of the
\* current run created.
C30_NoCarryOver ==
    /\ (pc = "action_executor" /\ current_step.id = FirstOfRun)
          => action_plan_history = <<>>
    /\ introduced > 0
          => \A i \in 1..Len(action_plan_history) :
                OfCurrentRun(action_plan_history[i])

====
